---- MODULE Spec2Model ----
(***************************************************************************)
(* Five-card poker hands: parsing (regex over the hand string),           *)
(* classification into a category with a scoring order, the hand          *)
(* comparator, and winning_hands.                                         *)
(*                                                                         *)
(* A string is a sequence of one-character strings.  A &str is a record   *)
(* [addr, text]: the place it points to and the characters there.         *)
(***************************************************************************)
EXTENDS Integers, Sequences, FiniteSets, TLC

VARIABLES
    hands,         \* winning_hands: the parameter hands, a sequence of &str
    pc,            \* the position in the function that is running
    idx,           \* winning_hands: the position of `for hand in hands`
    hand_handles,  \* winning_hands: the Vec<PokerHand> hand_handles
    result,        \* winning_hands: the value returned
    hand,          \* PokerHand::new, parse_hand_str: the parameter hand
    dealt,         \* the cards the string given to PokerHand::new was written from
    ret,           \* PokerHand::new, parse_hand_str: the value returned
    edits          \* the number of edits made to the string given to parse_hand_str

vars == <<hands, pc, idx, hand_handles, result, hand, dealt, ret, edits>>

----------------------------------------------------------------------------
(* Option and Result values.                                               *)

None == [tag |-> "None"]

Some(v) == [tag |-> "Some", val |-> v]

Ok(v) == [tag |-> "Ok", val |-> v]

Err(m) == [tag |-> "Err", message |-> m]

PokerHandError(message) == Err(message)

----------------------------------------------------------------------------
(* cards.rs                                                                *)

Clubs == "Clubs"

Diamonds == "Diamonds"

Hearts == "Hearts"

Spades == "Spades"

Suits == {Clubs, Diamonds, Hearts, Spades}

Two == 2

Three == 3

Four == 4

Five == 5

Six == 6

Seven == 7

Eight == 8

Nine == 9

Ten == 10

Jack == 11

Queen == 12

King == 13

Ace == 14

Ranks == Two..Ace

Card(rank, suit) == [rank |-> rank, suit |-> suit]

\* Equality of cards by rank alone, as the ordering of cards.rs compares them.
CardEq_rank_only(a, b) == a.rank = b.rank

\* impl PartialEq for Card: rank and suit.
CardEq(a, b) == a.rank = b.rank /\ a.suit = b.suit

\* impl Ord for Card: the rank alone.
CardCmp(a, b) ==
    IF a.rank < b.rank THEN "Less"
    ELSE IF a.rank > b.rank THEN "Greater"
    ELSE "Equal"

----------------------------------------------------------------------------
(* Vec operations of the standard library, on sequences (index 0 of the    *)
(* code is index 1 here).                                                  *)

RECURSIVE Reverse(_)
Reverse(s) == IF s = <<>> THEN <<>> ELSE Append(Reverse(Tail(s)), Head(s))

\* An exchange that writes s[j] over s[i] and leaves s[j] as it was.
Swap_overwrite(s, i, j) ==
    [k \in 1..Len(s) |-> IF k = i + 1 THEN s[j + 1] ELSE s[k]]

\* cards.swap(i, j), i and j are the code's 0-based indices.
Swap(s, i, j) ==
    [k \in 1..Len(s) |-> IF k = i + 1 THEN s[j + 1]
                         ELSE IF k = j + 1 THEN s[i + 1]
                         ELSE s[k]]

\* Vec::remove(0) followed by push of the removed element.
RemoveFirstPushBack(s) == Append(Tail(s), Head(s))

\* Insertion of c into an ascending sequence after every element that is
\* not greater than it: the stable position.
RECURSIVE InsertCard(_, _)
InsertCard(sorted, c) ==
    IF sorted = <<>> THEN <<c>>
    ELSE IF CardCmp(sorted[Len(sorted)], c) = "Greater"
         THEN Append(InsertCard(SubSeq(sorted, 1, Len(sorted) - 1), c),
                     sorted[Len(sorted)])
         ELSE Append(sorted, c)

\* cards.sort(): the stable ascending sort under Ord for Card.
RECURSIVE SortCards(_)
SortCards(s) ==
    IF s = <<>> THEN <<>>
    ELSE InsertCard(SortCards(SubSeq(s, 1, Len(s) - 1)), s[Len(s)])

----------------------------------------------------------------------------
(* poker_hand.rs                                                           *)

HighCard == 1

Pair == 2

TwoPair == 3

ThreeOfAKind == 4

Straight == 5

Flush == 6

FullHouse == 7

FourOfAKind == 8

StraightFlush == 9

PokerHandRanks == HighCard..StraightFlush

\* The result of a classification helper: its return value and the two
\* things it was given by mutable reference.
Checked(r, cards, hand_rank) == [ret |-> r, cards |-> cards, hand_rank |-> hand_rank]

\* check_flush comparing the suits of the first four cards only.
check_flush_first_four(cards, hand_rank) ==
    IF /\ cards[1].suit = cards[2].suit
       /\ cards[1].suit = cards[3].suit
       /\ cards[1].suit = cards[4].suit
    THEN Checked(TRUE, cards, Flush)
    ELSE Checked(FALSE, cards, hand_rank)

check_flush(cards, hand_rank) ==
    IF /\ cards[1].suit = cards[2].suit
       /\ cards[1].suit = cards[3].suit
       /\ cards[1].suit = cards[4].suit
       /\ cards[1].suit = cards[5].suit
    THEN Checked(TRUE, cards, Flush)
    ELSE Checked(FALSE, cards, hand_rank)

\* check_straight leaving the Ace of A-5-4-3-2 in front.
check_straight_ace_first(cards, hand_rank) ==
    IF \/ /\ cards[1].rank = cards[2].rank + 1
          /\ cards[1].rank = cards[3].rank + 2
          /\ cards[1].rank = cards[4].rank + 3
          /\ cards[1].rank = cards[5].rank + 4
       \/ /\ cards[1].rank = Ace
          /\ cards[2].rank = Five
          /\ cards[3].rank = Four
          /\ cards[4].rank = Three
          /\ cards[5].rank = Two
    THEN Checked(TRUE, cards, IF hand_rank = Flush THEN StraightFlush ELSE Straight)
    ELSE Checked(FALSE, cards, hand_rank)

check_straight(cards, hand_rank) ==
    IF \/ /\ cards[1].rank = cards[2].rank + 1
          /\ cards[1].rank = cards[3].rank + 2
          /\ cards[1].rank = cards[4].rank + 3
          /\ cards[1].rank = cards[5].rank + 4
       \/ /\ cards[1].rank = Ace
          /\ cards[2].rank = Five
          /\ cards[3].rank = Four
          /\ cards[4].rank = Three
          /\ cards[5].rank = Two
    THEN LET hr == IF hand_rank = Flush THEN StraightFlush ELSE Straight
             cs == IF cards[1].rank = Ace /\ cards[2].rank = Five
                   THEN RemoveFirstPushBack(cards)
                   ELSE cards
         IN  Checked(TRUE, cs, hr)
    ELSE Checked(FALSE, cards, hand_rank)

check_four_of_a_kind(cards, hand_rank) ==
    IF /\ cards[2].rank = cards[3].rank
       /\ cards[2].rank = cards[4].rank
       /\ (cards[2].rank = cards[1].rank \/ cards[2].rank = cards[5].rank)
    THEN Checked(TRUE,
                 IF cards[5].rank = cards[2].rank THEN Swap(cards, 0, 4) ELSE cards,
                 FourOfAKind)
    ELSE Checked(FALSE, cards, hand_rank)

\* check_three_and_full_house with cards.swap(0, 3) of its last arm done
\* before the arm's test, and kept when the test fails.
check_three_and_full_house_swap_kept(cards, hand_rank) ==
    IF cards[1].rank = cards[2].rank /\ cards[1].rank = cards[3].rank
    THEN Checked(TRUE, cards,
                 IF cards[4].rank = cards[5].rank THEN FullHouse ELSE ThreeOfAKind)
    ELSE IF cards[2].rank = cards[3].rank /\ cards[2].rank = cards[4].rank
    THEN Checked(TRUE, Swap(cards, 0, 3), ThreeOfAKind)
    ELSE IF cards[3].rank = cards[4].rank /\ cards[3].rank = cards[5].rank
    THEN Checked(TRUE, Swap(Swap(cards, 0, 3), 1, 4),
                 IF cards[1].rank = cards[2].rank THEN FullHouse ELSE ThreeOfAKind)
    ELSE Checked(FALSE, Swap(cards, 0, 3), hand_rank)

check_three_and_full_house(cards, hand_rank) ==
    IF cards[1].rank = cards[2].rank /\ cards[1].rank = cards[3].rank
    THEN Checked(TRUE, cards,
                 IF cards[4].rank = cards[5].rank THEN FullHouse ELSE ThreeOfAKind)
    ELSE IF cards[2].rank = cards[3].rank /\ cards[2].rank = cards[4].rank
    THEN Checked(TRUE, Swap(cards, 0, 3), ThreeOfAKind)
    ELSE IF cards[3].rank = cards[4].rank /\ cards[3].rank = cards[5].rank
    THEN Checked(TRUE, Swap(Swap(cards, 0, 3), 1, 4),
                 IF cards[1].rank = cards[2].rank THEN FullHouse ELSE ThreeOfAKind)
    ELSE Checked(FALSE, cards, hand_rank)

\* check_one_and_two_pairs without the second swap of the hand whose kicker
\* is above both pairs.
check_one_and_two_pairs_one_swap(cards, hand_rank) ==
    IF cards[1].rank = cards[2].rank
    THEN IF cards[3].rank = cards[4].rank
         THEN Checked(TRUE, cards, TwoPair)
         ELSE IF cards[4].rank = cards[5].rank
         THEN Checked(TRUE, Swap(cards, 2, 4), TwoPair)
         ELSE Checked(TRUE, cards, Pair)
    ELSE IF cards[2].rank = cards[3].rank
    THEN IF cards[4].rank = cards[5].rank
         THEN Checked(TRUE, Swap(cards, 0, 2), TwoPair)
         ELSE Checked(TRUE, Swap(cards, 0, 2), Pair)
    ELSE IF cards[3].rank = cards[4].rank
    THEN Checked(TRUE, Swap(Swap(cards, 0, 2), 1, 3), Pair)
    ELSE IF cards[4].rank = cards[5].rank
    THEN Checked(TRUE, Swap(Swap(Swap(cards, 2, 4), 1, 3), 0, 2), Pair)
    ELSE Checked(FALSE, cards, hand_rank)

check_one_and_two_pairs(cards, hand_rank) ==
    IF cards[1].rank = cards[2].rank
    THEN IF cards[3].rank = cards[4].rank
         THEN Checked(TRUE, cards, TwoPair)
         ELSE IF cards[4].rank = cards[5].rank
         THEN Checked(TRUE, Swap(cards, 2, 4), TwoPair)
         ELSE Checked(TRUE, cards, Pair)
    ELSE IF cards[2].rank = cards[3].rank
    THEN IF cards[4].rank = cards[5].rank
         THEN Checked(TRUE, Swap(Swap(cards, 0, 2), 2, 4), TwoPair)
         ELSE Checked(TRUE, Swap(cards, 0, 2), Pair)
    ELSE IF cards[3].rank = cards[4].rank
    THEN Checked(TRUE, Swap(Swap(cards, 0, 2), 1, 3), Pair)
    ELSE IF cards[4].rank = cards[5].rank
    THEN Checked(TRUE, Swap(Swap(Swap(cards, 2, 4), 1, 3), 0, 2), Pair)
    ELSE Checked(FALSE, cards, hand_rank)

----------------------------------------------------------------------------
(* The regular expression of parse_hand_str and the conversion of its      *)
(* captures.                                                               *)

Panic(m) == [tag |-> "Panic", message |-> m]

Digit2to9 == {"2", "3", "4", "5", "6", "7", "8", "9"}

FaceChars == {"J", "Q", "K", "A"}

SuitChars == {"H", "S", "C", "D"}

\* The group written ([1-9]|10|[JQKA]): the digit 1 is a rank code by itself.
RankLen_one_to_nine(s, i) ==
    IF i <= Len(s) /\ s[i] \in Digit2to9 THEN 1
    ELSE IF i + 1 <= Len(s) /\ s[i] = "1" /\ s[i + 1] = "0" THEN 2
    ELSE IF i <= Len(s) /\ s[i] \in FaceChars \cup {"1"} THEN 1
    ELSE 0

\* The number of characters the group ([2-9]|10|[JQKA]) matches at position
\* i of s, 0 when it does not match there.
RankLen(s, i) ==
    IF i <= Len(s) /\ s[i] \in Digit2to9 THEN 1
    ELSE IF i + 1 <= Len(s) /\ s[i] = "1" /\ s[i + 1] = "0" THEN 2
    ELSE IF i <= Len(s) /\ s[i] \in FaceChars THEN 1
    ELSE 0

\* The pattern without its end anchor ($).
RECURSIVE ReCaptures_no_end_anchor(_, _, _)
ReCaptures_no_end_anchor(s, i, k) ==
    LET rl == RankLen(s, i)
        si == i + rl
        cap == [rank |-> SubSeq(s, i, si - 1), suit |-> SubSeq(s, si, si)]
    IN  IF rl = 0 THEN None
        ELSE IF ~(si <= Len(s) /\ s[si] \in SuitChars) THEN None
        ELSE IF k = 5 THEN Some(<<cap>>)
        ELSE IF ~(si + 1 <= Len(s) /\ s[si + 1] = " ") THEN None
        ELSE LET rest == ReCaptures_no_end_anchor(s, si + 2, k + 1)
             IN  IF rest.tag = "None" THEN None
                 ELSE Some(<<cap>> \o rest.val)

\* The groups rank_k, suit_k .. rank_5, suit_5 matched from position i, each
\* followed by one space but the last, which is followed by the end of the
\* string ($).  None, or Some of the captures of the groups k..5.
RECURSIVE ReCaptures(_, _, _)
ReCaptures(s, i, k) ==
    LET rl == RankLen(s, i)
        si == i + rl
        cap == [rank |-> SubSeq(s, i, si - 1), suit |-> SubSeq(s, si, si)]
    IN  IF rl = 0 THEN None
        ELSE IF ~(si <= Len(s) /\ s[si] \in SuitChars) THEN None
        ELSE IF k = 5
             THEN IF si = Len(s) THEN Some(<<cap>>) ELSE None
        ELSE IF ~(si + 1 <= Len(s) /\ s[si + 1] = " ") THEN None
        ELSE LET rest == ReCaptures(s, si + 2, k + 1)
             IN  IF rest.tag = "None" THEN None
                 ELSE Some(<<cap>> \o rest.val)

\* re.captures(hand): the pattern is anchored at the start (^).
RegexCaptures(s) == ReCaptures(s, 1, 1)

\* convert_strings_to_card with "K" read as a Queen.
convert_strings_to_card_king_as_queen(rank, suit) ==
    LET card_rank ==
            CASE rank = <<"2">> -> Two
              [] rank = <<"3">> -> Three
              [] rank = <<"4">> -> Four
              [] rank = <<"5">> -> Five
              [] rank = <<"6">> -> Six
              [] rank = <<"7">> -> Seven
              [] rank = <<"8">> -> Eight
              [] rank = <<"9">> -> Nine
              [] rank = <<"1", "0">> -> Ten
              [] rank = <<"J">> -> Jack
              [] rank = <<"Q">> -> Queen
              [] rank = <<"K">> -> Queen
              [] rank = <<"A">> -> Ace
              [] OTHER -> 0
        card_suit ==
            CASE suit = <<"H">> -> Hearts
              [] suit = <<"S">> -> Spades
              [] suit = <<"C">> -> Clubs
              [] suit = <<"D">> -> Diamonds
              [] OTHER -> "none"
    IN  IF card_rank = 0 THEN Panic("Invalid card rank")
        ELSE IF card_suit = "none" THEN Panic("Invalid card suit")
        ELSE Card(card_rank, card_suit)

convert_strings_to_card(rank, suit) ==
    LET card_rank ==
            CASE rank = <<"2">> -> Two
              [] rank = <<"3">> -> Three
              [] rank = <<"4">> -> Four
              [] rank = <<"5">> -> Five
              [] rank = <<"6">> -> Six
              [] rank = <<"7">> -> Seven
              [] rank = <<"8">> -> Eight
              [] rank = <<"9">> -> Nine
              [] rank = <<"1", "0">> -> Ten
              [] rank = <<"J">> -> Jack
              [] rank = <<"Q">> -> Queen
              [] rank = <<"K">> -> King
              [] rank = <<"A">> -> Ace
              [] OTHER -> 0
        card_suit ==
            CASE suit = <<"H">> -> Hearts
              [] suit = <<"S">> -> Spades
              [] suit = <<"C">> -> Clubs
              [] suit = <<"D">> -> Diamonds
              [] OTHER -> "none"
    IN  IF card_rank = 0 THEN Panic("Invalid card rank")
        ELSE IF card_suit = "none" THEN Panic("Invalid card suit")
        ELSE Card(card_rank, card_suit)

\* The five converted cards: Some of them, or the panic of the first
\* conversion that panics.
PushedCards(cards) ==
    LET bad == {k \in 1..5 : "tag" \in DOMAIN cards[k]}
    IN  IF bad # {}
        THEN cards[CHOOSE k \in bad : \A m \in bad : k <= m]
        ELSE Some(cards)

\* The part of parse_hand_str that follows re.captures(hand).
CardsOfCaptures(caps) ==
    IF caps.tag = "None" THEN None
    ELSE PushedCards([k \in 1..5 |->
                         convert_strings_to_card(caps.val[k].rank, caps.val[k].suit)])

\* Some of the five cards in input order, None when the pattern does not
\* match, the panic of a conversion when one panics.
parse_hand_str(s) == CardsOfCaptures(RegexCaptures(s))

\* check_for_duplicate_cards looking at neighbouring cards only.
check_for_duplicate_cards_adjacent(cards) ==
    \E i \in 1..(Len(cards) - 1) : CardEq(cards[i], cards[i + 1])

check_for_duplicate_cards(cards) ==
    \E i \in 1..(Len(cards) - 1) :
        \E j \in (i + 1)..Len(cards) : CardEq(cards[i], cards[j])

\* The classification cascade of PokerHand::new after check_straight,
\* check_four_of_a_kind and check_three_and_full_house: the next helper is
\* called only when the one before returned false.
AfterThree(three) ==
    IF three.ret THEN three
    ELSE check_one_and_two_pairs(three.cards, three.hand_rank)

AfterFour(four) ==
    IF four.ret THEN four
    ELSE AfterThree(check_three_and_full_house(four.cards, four.hand_rank))

AfterStraight(s) ==
    IF s.ret THEN s
    ELSE AfterFour(check_four_of_a_kind(s.cards, s.hand_rank))

\* check_flush is called for its effect on hand_rank, check_straight next.
AfterFlush(f) == AfterStraight(check_straight(f.cards, f.hand_rank))

PokerHand(hand_handle, classified) ==
    [hand_handle |-> hand_handle,
     hand_rank |-> classified.hand_rank,
     cards |-> classified.cards]

\* PokerHand::new from the sorted and reversed cards on.
NewOfSorted(h, cards) ==
    IF check_for_duplicate_cards(cards)
    THEN PokerHandError("Duplicate cards in hand")
    ELSE Ok(PokerHand(h, AfterFlush(check_flush(cards, HighCard))))

\* PokerHand::new from the result of parse_hand_str on.
NewOfParsed(h, parsed) ==
    IF parsed.tag = "Panic" THEN parsed
    ELSE IF parsed.tag = "None" THEN PokerHandError("Invalid poker hand")
    ELSE NewOfSorted(h, Reverse(SortCards(parsed.val)))

\* PokerHand::new(hand).  h is the &str it is given.
PokerHandNew(h) == NewOfParsed(h, parse_hand_str(h.text))

\* PartialEq for PokerHand comparing the cards, suits included.
PokerHandEq_with_suits(a, b) ==
    IF a.hand_rank # b.hand_rank THEN FALSE
    ELSE \A i \in 1..5 : CardEq(a.cards[i], b.cards[i])

\* impl PartialEq for PokerHand.
PokerHandEq(a, b) ==
    IF a.hand_rank # b.hand_rank THEN FALSE
    ELSE \A i \in 1..5 : a.cards[i].rank = b.cards[i].rank

\* PartialOrd for PokerHand decided by the last differing rank.
partial_cmp_last_difference(a, b) ==
    IF a.hand_rank < b.hand_rank THEN Some("Less")
    ELSE IF a.hand_rank > b.hand_rank THEN Some("Greater")
    ELSE LET diff == {i \in 1..5 : a.cards[i].rank # b.cards[i].rank}
         IN  IF diff = {} THEN Some("Equal")
             ELSE LET i == CHOOSE k \in diff : \A m \in diff : k >= m
                  IN  IF a.cards[i].rank < b.cards[i].rank
                      THEN Some("Less")
                      ELSE Some("Greater")

\* impl PartialOrd for PokerHand.
partial_cmp(a, b) ==
    IF a.hand_rank < b.hand_rank THEN Some("Less")
    ELSE IF a.hand_rank > b.hand_rank THEN Some("Greater")
    ELSE LET diff == {i \in 1..5 : a.cards[i].rank # b.cards[i].rank}
         IN  IF diff = {} THEN Some("Equal")
             ELSE LET i == CHOOSE k \in diff : \A m \in diff : k <= m
                  IN  IF a.cards[i].rank < b.cards[i].rank
                      THEN Some("Less")
                      ELSE Some("Greater")

----------------------------------------------------------------------------
(* lib.rs: winning_hands                                                   *)

\* An insertion that puts h before the elements equal to it: not stable.
RECURSIVE InsertHand_unstable(_, _)
InsertHand_unstable(sorted, h) ==
    IF sorted = <<>> THEN <<h>>
    ELSE IF partial_cmp(sorted[Len(sorted)], h).val # "Less"
         THEN Append(InsertHand_unstable(SubSeq(sorted, 1, Len(sorted) - 1), h),
                     sorted[Len(sorted)])
         ELSE Append(sorted, h)

\* Insertion of h into a sequence ascending under partial_cmp, after every
\* element that is not greater than it: the stable position.
RECURSIVE InsertHand(_, _)
InsertHand(sorted, h) ==
    IF sorted = <<>> THEN <<h>>
    ELSE IF partial_cmp(sorted[Len(sorted)], h).val = "Greater"
         THEN Append(InsertHand(SubSeq(sorted, 1, Len(sorted) - 1), h),
                     sorted[Len(sorted)])
         ELSE Append(sorted, h)

\* hand_handles.sort_by(|a, b| a.partial_cmp(b).unwrap()): stable, ascending.
RECURSIVE SortHands(_)
SortHands(s) ==
    IF s = <<>> THEN <<>>
    ELSE InsertHand(SortHands(SubSeq(s, 1, Len(s) - 1)), s[Len(s)])

\* The loop over 1..len that pushes while the hand equals the first one and
\* breaks at the first that does not: top_hands from position i on.
RECURSIVE TopHandsFrom(_, _)
TopHandsFrom(hs, i) ==
    IF i > Len(hs) THEN <<>>
    ELSE IF PokerHandEq(hs[i], hs[1])
         THEN <<hs[i].hand_handle>> \o TopHandsFrom(hs, i + 1)
         ELSE <<>>

\* The match returning the first hand alone.
MatchLen_first_only(hs) ==
    IF Len(hs) = 0 THEN None
    ELSE Some(<<hs[1].hand_handle>>)

\* The match on hand_handles.len() that ends winning_hands.
MatchLen(hs) ==
    IF Len(hs) = 0 THEN None
    ELSE IF Len(hs) = 1 THEN Some(<<hs[1].hand_handle>>)
    ELSE Some(<<hs[1].hand_handle>> \o TopHandsFrom(hs, 2))

Pending == [tag |-> "Pending"]

----------------------------------------------------------------------------
(* The inputs.                                                             *)

MaxHands == 3

\* Hand strings given to winning_hands: one that does not parse, one with a
\* duplicate card, and hands of seven categories, some of equal value.
Pool ==
    {
       <<"9", "H", " ", "A", "S", " ", "J", "C", " ", "1", "2", "D", " ", "5", "H">>,
       <<"4", "C", " ", "4", "S", " ", "4", "C", " ", "3", "S", " ", "2", "H">>,
       <<"2", "H", " ", "3", "D", " ", "5", "S", " ", "9", "C", " ", "K", "D">>,
       <<"4", "D", " ", "4", "H", " ", "J", "D", " ", "6", "C", " ", "2", "S">>,
       <<"4", "C", " ", "4", "S", " ", "J", "H", " ", "6", "S", " ", "2", "S">>,
       <<"4", "D", " ", "4", "H", " ", "J", "D", " ", "7", "C", " ", "2", "S">>,
       <<"4", "S", " ", "A", "H", " ", "2", "H", " ", "5", "D", " ", "3", "C">>,
       <<"5", "C", " ", "4", "D", " ", "3", "H", " ", "2", "S", " ", "A", "D">>,
       <<"2", "H", " ", "3", "C", " ", "4", "S", " ", "5", "D", " ", "6", "H">>,
       <<"1", "0", "D", " ", "J", "H", " ", "Q", "S", " ", "K", "S", " ", "A", "C">>,
       <<"9", "H", " ", "A", "H", " ", "J", "H", " ", "7", "H", " ", "5", "H">>,
       <<"7", "D", " ", "7", "H", " ", "9", "S", " ", "9", "C", " ", "9", "D">>,
       <<"J", "D", " ", "9", "H", " ", "9", "S", " ", "9", "C", " ", "9", "D">>,
       <<"A", "H", " ", "5", "H", " ", "4", "H", " ", "3", "H", " ", "2", "H">>,
       <<"2", "S", " ", "3", "S", " ", "4", "S", " ", "5", "S", " ", "6", "S">>,
       <<"A", "D", " ", "2", "D", " ", "3", "D", " ", "4", "D", " ", "5", "D">>
    }

StrRef(a, t) == [addr |-> a, text |-> t]

----------------------------------------------------------------------------
(* winning_hands as a state machine.                                       *)

Init ==
    /\ \E n \in 0..MaxHands : \E texts \in [1..n -> Pool] :
           hands = [k \in 1..n |-> StrRef(k, texts[k])]
    /\ pc = "loop"
    /\ idx = 1
    /\ hand_handles = <<>>
    /\ result = Pending
    /\ hand = StrRef(0, <<>>)
    /\ dealt = <<>>
    /\ ret = Pending
    /\ edits = 0

\* The body of the loop on the result r of PokerHand::new.
LoopBody(r) ==
    IF r.tag = "Panic"
    THEN pc' = "panic" /\ UNCHANGED <<idx, hand_handles>>
    ELSE /\ pc' = pc
         /\ idx' = idx + 1
         /\ hand_handles' = IF r.tag = "Ok"
                            THEN Append(hand_handles, r.val)
                            ELSE hand_handles

\* One iteration of `for hand in hands`.
LoopHand ==
    /\ pc = "loop"
    /\ idx <= Len(hands)
    /\ LoopBody(PokerHandNew(hands[idx]))
    /\ UNCHANGED <<hands, result, hand, dealt, ret, edits>>

LoopEnd ==
    /\ pc = "loop"
    /\ idx > Len(hands)
    /\ pc' = "sort"
    /\ UNCHANGED <<hands, idx, hand_handles, result, hand, dealt, ret, edits>>

SortBy ==
    /\ pc = "sort"
    /\ hand_handles' = SortHands(hand_handles)
    /\ pc' = "reverse"
    /\ UNCHANGED <<hands, idx, result, hand, dealt, ret, edits>>

ReverseHands ==
    /\ pc = "reverse"
    /\ hand_handles' = Reverse(hand_handles)
    /\ pc' = "match"
    /\ UNCHANGED <<hands, idx, result, hand, dealt, ret, edits>>

ReturnTop ==
    /\ pc = "match"
    /\ result' = MatchLen(hand_handles)
    /\ pc' = "done"
    /\ UNCHANGED <<hands, idx, hand_handles, hand, dealt, ret, edits>>

Next == LoopHand \/ LoopEnd \/ SortBy \/ ReverseHands \/ ReturnTop

Spec == Init /\ [][Next]_vars

----------------------------------------------------------------------------
(* PokerHand::new on one hand string: five cards dealt from a deck, at     *)
(* most one of them dealt twice, written in the hand string format.       *)

MaxLowRank == 6

NumPerms == 2

SuitSeq == <<Clubs, Diamonds, Hearts, Spades>>

\* The ranks of the deck: Two..MaxLowRank, the Ten and the Ace.
DeckRanks == [k \in 1..(MaxLowRank - 1) |-> k + 1] \o <<Ten, Ace>>

DeckSize == Len(DeckRanks) * Len(SuitSeq)

DeckCard(n) ==
    Card(DeckRanks[((n - 1) \div Len(SuitSeq)) + 1],
         SuitSeq[((n - 1) % Len(SuitSeq)) + 1])

\* The orders in which five dealt cards are written.
Perms ==
    << <<1, 2, 3, 4, 5>>, <<4, 2, 5, 1, 3>>, <<5, 4, 3, 2, 1>>, <<2, 3, 1, 5, 4>> >>

RankCode(r) ==
    CASE r = Ten -> <<"1", "0">>
      [] r = Jack -> <<"J">>
      [] r = Queen -> <<"Q">>
      [] r = King -> <<"K">>
      [] r = Ace -> <<"A">>
      [] OTHER -> <<<<"2", "3", "4", "5", "6", "7", "8", "9">>[r - 1]>>

SuitCode(s) ==
    CASE s = Hearts -> <<"H">>
      [] s = Spades -> <<"S">>
      [] s = Clubs -> <<"C">>
      [] s = Diamonds -> <<"D">>

Token(c) == RankCode(c.rank) \o SuitCode(c.suit)

\* "<rank><suit> <rank><suit> ..." with single spaces.
RECURSIVE HandString(_)
HandString(cards) ==
    IF cards = <<>> THEN <<>>
    ELSE IF Len(cards) = 1 THEN Token(cards[1])
    ELSE Token(cards[1]) \o <<" ">> \o HandString(Tail(cards))

InitNew ==
    /\ \E c1 \in 1..DeckSize : \E c2 \in c1..DeckSize :
       \E c3 \in (c2 + 1)..DeckSize : \E c4 \in (c3 + 1)..DeckSize :
       \E c5 \in (c4 + 1)..DeckSize : \E p \in 1..NumPerms :
           LET cs == <<c1, c2, c3, c4, c5>>
           IN  dealt = [k \in 1..5 |-> DeckCard(cs[Perms[p][k]])]
    /\ hand = StrRef(1, HandString(dealt))
    /\ ret = Pending
    /\ pc = "new"
    /\ hands = <<>>
    /\ idx = 0
    /\ hand_handles = <<>>
    /\ result = Pending
    /\ edits = 0

New ==
    /\ pc = "new"
    /\ ret' = PokerHandNew(hand)
    /\ pc' = "returned"
    /\ UNCHANGED <<hands, idx, hand_handles, result, hand, dealt, edits>>

NextNew == New

SpecNew == InitNew /\ [][NextNew]_vars

----------------------------------------------------------------------------
(* parse_hand_str on hand strings and on strings that are a few edits      *)
(* away from one.                                                          *)

MaxEdits == 1

Templates ==
    { <<"9", "H", " ", "A", "S", " ", "J", "C", " ", "1", "0", "D", " ", "5", "H">>,
      <<"2", "S", " ", "3", "S", " ", "4", "S", " ", "5", "S", " ", "6", "S">> }

EditChars == {" ", "1", "0", "2", "K", "H", "x"}

AllCards == {Card(r, s) : r \in Ranks, s \in Suits}

\* The pieces of s between its spaces, empty pieces included.
RECURSIVE Split(_)
Split(s) ==
    IF \A i \in 1..Len(s) : s[i] # " " THEN <<s>>
    ELSE LET i == CHOOSE k \in 1..Len(s) :
                      s[k] = " " /\ \A m \in 1..(k - 1) : s[m] # " "
         IN  <<SubSeq(s, 1, i - 1)>> \o Split(SubSeq(s, i + 1, Len(s)))

RECURSIVE Join(_)
Join(pieces) ==
    IF Len(pieces) = 1 THEN pieces[1]
    ELSE pieces[1] \o <<" ">> \o Join(Tail(pieces))

InitParse ==
    /\ \E t \in Templates : hand = StrRef(1, t)
    /\ edits = 0
    /\ ret = Pending
    /\ pc = "input"
    /\ dealt = <<>>
    /\ hands = <<>>
    /\ idx = 0
    /\ hand_handles = <<>>
    /\ result = Pending

Edited(t) ==
    /\ pc = "input"
    /\ edits < MaxEdits
    /\ hand' = StrRef(hand.addr, t)
    /\ edits' = edits + 1
    /\ UNCHANGED <<hands, pc, idx, hand_handles, result, dealt, ret>>

\* Another card written in the place of the k-th piece.
ReplaceToken ==
    \E k \in 1..Len(Split(hand.text)) : \E c \in AllCards :
        Edited(Join([Split(hand.text) EXCEPT ![k] = Token(c)]))

AppendToken ==
    \E c \in AllCards : Edited(hand.text \o <<" ">> \o Token(c))

\* The last piece and the space before it removed.
DropToken ==
    /\ Len(Split(hand.text)) > 1
    /\ Edited(Join(SubSeq(Split(hand.text), 1, Len(Split(hand.text)) - 1)))

InsertChar ==
    \E p \in 1..(Len(hand.text) + 1) : \E ch \in EditChars :
        Edited(SubSeq(hand.text, 1, p - 1) \o <<ch>>
               \o SubSeq(hand.text, p, Len(hand.text)))

DeleteChar ==
    \E p \in 1..Len(hand.text) :
        Edited(SubSeq(hand.text, 1, p - 1) \o SubSeq(hand.text, p + 1, Len(hand.text)))

ReplaceChar ==
    \E p \in 1..Len(hand.text) : \E ch \in EditChars :
        Edited([hand.text EXCEPT ![p] = ch])

ParseHand ==
    /\ pc = "input"
    /\ ret' = parse_hand_str(hand.text)
    /\ pc' = "parsed"
    /\ UNCHANGED <<hands, idx, hand_handles, result, hand, dealt, edits>>

NextParse ==
    \/ ReplaceToken
    \/ AppendToken
    \/ DropToken
    \/ InsertChar
    \/ DeleteChar
    \/ ReplaceChar
    \/ ParseHand

SpecParse == InitParse /\ [][NextParse]_vars

----------------------------------------------------------------------------
(* PokerHand::new on hand strings and on strings that are a few edits away *)
(* from one.                                                               *)

NewInput ==
    /\ pc = "input"
    /\ ret' = PokerHandNew(hand)
    /\ pc' = "returned"
    /\ UNCHANGED <<hands, idx, hand_handles, result, hand, dealt, edits>>

NextInput ==
    \/ ReplaceToken
    \/ AppendToken
    \/ DropToken
    \/ InsertChar
    \/ DeleteChar
    \/ ReplaceChar
    \/ NewInput

SpecInput == InitParse /\ [][NextInput]_vars

----------------------------------------------------------------------------
(* What the claims speak of, stated on the cards themselves.               *)

RankCount(cards, r) == Cardinality({k \in 1..Len(cards) : cards[k].rank = r})

\* The number of ranks that occur exactly n times among the cards.
RanksOccurring(cards, n) == Cardinality({r \in Ranks : RankCount(cards, r) = n})

RankSet(cards) == {cards[k].rank : k \in 1..Len(cards)}

AllSameSuit(cards) == \A i, j \in 1..Len(cards) : cards[i].suit = cards[j].suit

IsWheel(cards) == RankSet(cards) = {Ace, Five, Four, Three, Two}

IsConsecutive(cards) == \E lo \in Ranks : RankSet(cards) = lo..(lo + 4)

IsStraight(cards) == IsConsecutive(cards) \/ IsWheel(cards)

HasDuplicate(cards) ==
    \E i, j \in 1..Len(cards) : i # j /\ cards[i] = cards[j]

RanksOf(cards) == [k \in 1..Len(cards) |-> cards[k].rank]

Returned == pc = "returned" /\ ret.tag = "Ok"

----------------------------------------------------------------------------
\* C1: for every duplicate-free five-card hand, in any input order,
\* PokerHand::new returns a hand whose category is the one of the standard
\* hierarchy: StraightFlush iff one suit and a straight (A-5-4-3-2 included),
\* FourOfAKind iff a rank occurs four times, FullHouse iff counts 3 and 2,
\* Flush iff one suit and no straight, Straight iff a straight and not one
\* suit, ThreeOfAKind iff counts 3,1,1, TwoPair iff 2,2,1, Pair iff 2,1,1,1,
\* HighCard otherwise.
C1_StandardCategory ==
    (pc = "returned" /\ ~HasDuplicate(dealt)) =>
        /\ ret.tag = "Ok"
        /\ LET c == ret.val.hand_rank
               three == RanksOccurring(dealt, 3) = 1
               pairs == RanksOccurring(dealt, 2)
               flush == AllSameSuit(dealt)
               straight == IsStraight(dealt)
           IN  /\ c \in PokerHandRanks
               /\ (c = StraightFlush) <=> (flush /\ straight)
               /\ (c = FourOfAKind) <=> (RanksOccurring(dealt, 4) = 1)
               /\ (c = FullHouse) <=> (three /\ pairs = 1)
               /\ (c = Flush) <=> (flush /\ ~straight)
               /\ (c = Straight) <=> (straight /\ ~flush)
               /\ (c = ThreeOfAKind) <=> (three /\ pairs = 0)
               /\ (c = TwoPair) <=> (pairs = 2)
               /\ (c = Pair) <=> (pairs = 1 /\ ~three)
               /\ (c = HighCard) <=>
                      (RanksOccurring(dealt, 1) = 5 /\ ~flush /\ ~straight)

\* A straight flush written with its cards out of rank order.
C1_Witness ==
    /\ Returned
    /\ ret.val.hand_rank = StraightFlush
    /\ IsWheel(dealt)
    /\ dealt[1].rank > dealt[2].rank
    /\ dealt[2].rank < dealt[3].rank

----------------------------------------------------------------------------
\* The ranks stored for the hand "9H AS JC 10D 5H".
ExampleRanks ==
    RanksOf(PokerHandNew(StrRef(0, <<"9", "H", " ", "A", "S", " ", "J", "C", " ", "1", "0", "D", " ", "5", "H">>)).val.cards)

\* C2: for every duplicate-free hand other than the A-5-4-3-2 straight, the
\* stored cards are ordered by (number of cards of that rank descending,
\* then rank descending); "9H AS JC 10D 5H" gives the ranks 14,11,10,9,5.
C2_ScoringOrder ==
    /\ (Returned /\ ~IsWheel(dealt)) =>
           LET cards == ret.val.cards
               n(k) == RankCount(cards, cards[k].rank)
           IN  /\ Len(cards) = 5
               /\ \A r \in Ranks : RankCount(cards, r) = RankCount(dealt, r)
               /\ \A k \in 1..4 :
                      \/ n(k) > n(k + 1)
                      \/ n(k) = n(k + 1) /\ cards[k].rank >= cards[k + 1].rank
    /\ ExampleRanks = <<14, 11, 10, 9, 5>>

\* Two pairs below the kicker: the stored order is not the descending one.
C2_Witness ==
    /\ Returned
    /\ ret.val.hand_rank = TwoPair
    /\ ret.val.cards[5].rank > ret.val.cards[1].rank
    /\ dealt[1].rank < dealt[5].rank

----------------------------------------------------------------------------
(* Hand strings, stated on their pieces.                                   *)

ValidTokens == {Token(c) : c \in AllCards}

\* Exactly five valid tokens separated by single spaces.
WellFormed(s) ==
    LET ps == Split(s)
    IN  Len(ps) = 5 /\ \A k \in 1..5 : ps[k] \in ValidTokens

\* A hand string that parses and names five different cards.
ValidHand(s) ==
    LET ps == Split(s)
    IN  /\ Len(ps) = 5
        /\ \A k \in 1..5 : ps[k] \in ValidTokens
        /\ \A i, j \in 1..5 : i # j => ps[i] # ps[j]

\* The positions of the input of winning_hands that hold a valid hand.
ValidPositions == {i \in 1..Len(hands) : ValidHand(hands[i].text)}

\* The hands held in hand_handles.
Held == {hand_handles[i] : i \in 1..Len(hand_handles)}

TopRank(cards) == CHOOSE r \in RankSet(cards) : \A q \in RankSet(cards) : q <= r

----------------------------------------------------------------------------
\* C3: a hand with the ranks Ace,5,4,3,2 is a Straight (a StraightFlush when
\* all five share a suit), its scoring order is 5,4,3,2,Ace, it compares
\* lower than every straight of the same category whose top card is 6 or
\* higher and equal to every other A-5-4-3-2 hand of the same category.
C3_Wheel ==
    \A h \in Held :
        (pc = "sort" /\ IsWheel(h.cards)) =>
            /\ h.hand_rank = IF AllSameSuit(h.cards) THEN StraightFlush ELSE Straight
            /\ RanksOf(h.cards) = <<Five, Four, Three, Two, Ace>>
            /\ \A g \in Held :
                   g.hand_rank = h.hand_rank =>
                       IF IsWheel(g.cards)
                       THEN /\ partial_cmp(h, g) = Some("Equal")
                            /\ PokerHandEq(h, g)
                       ELSE TopRank(g.cards) >= Six =>
                                /\ partial_cmp(h, g) = Some("Less")
                                /\ partial_cmp(g, h) = Some("Greater")

\* Two A-5-4-3-2 hands of one category in different suits, and a six-high
\* straight of that category.
C3_Witness ==
    \E h, g, f \in Held :
        /\ pc = "sort"
        /\ IsWheel(h.cards) /\ IsWheel(g.cards)
        /\ h.cards # g.cards
        /\ h.hand_rank = g.hand_rank /\ f.hand_rank = h.hand_rank
        /\ ~IsWheel(f.cards) /\ TopRank(f.cards) = Six

----------------------------------------------------------------------------
\* C4: two classified hands compare by category first; with equal
\* categories by the first position, left to right, at which their five
\* scoring-order ranks differ; with all five ranks equal they compare Equal
\* and are ==, also when their suits differ.
C4_Comparison ==
    \A a, b \in Held :
        pc = "sort" =>
        LET c == partial_cmp(a, b)
            ra == RanksOf(a.cards)
            rb == RanksOf(b.cards)
        IN  /\ a.hand_rank > b.hand_rank => c = Some("Greater") /\ ~PokerHandEq(a, b)
            /\ a.hand_rank < b.hand_rank => c = Some("Less") /\ ~PokerHandEq(a, b)
            /\ a.hand_rank = b.hand_rank =>
                   IF ra = rb
                   THEN c = Some("Equal") /\ PokerHandEq(a, b)
                   ELSE \E k \in 1..5 :
                            /\ \A m \in 1..(k - 1) : ra[m] = rb[m]
                            /\ ra[k] # rb[k]
                            /\ c = Some(IF ra[k] > rb[k] THEN "Greater" ELSE "Less")
                            /\ ~PokerHandEq(a, b)

\* Two hands of equal ranks in different suits and a third of their
\* category that differs from them first at the fourth rank.
C4_Witness ==
    /\ pc = "sort"
    /\ \E a, b, d \in Held :
           /\ RanksOf(a.cards) = RanksOf(b.cards)
           /\ a.cards # b.cards
           /\ a.hand_rank = b.hand_rank
           /\ d.hand_rank = a.hand_rank
           /\ \A m \in 1..3 : a.cards[m].rank = d.cards[m].rank
           /\ a.cards[4].rank < d.cards[4].rank

----------------------------------------------------------------------------
Le(a, b) == partial_cmp(a, b).val \in {"Less", "Equal"}

\* C5: the comparator is a total order on hand values: partial_cmp always
\* returns a result, a hand compares Equal to itself, a < b implies b > a,
\* a <= b and b <= c imply a <= c, a == b exactly when partial_cmp(a, b) is
\* Equal; sorting a sorted list of hands changes nothing.
C5_TotalOrder ==
    /\ \A a, b \in Held :
           pc = "sort" =>
           /\ partial_cmp(a, b).tag = "Some"
           /\ partial_cmp(a, b).val \in {"Less", "Equal", "Greater"}
           /\ partial_cmp(a, a) = Some("Equal")
           /\ partial_cmp(a, b) = Some("Less") => partial_cmp(b, a) = Some("Greater")
           /\ PokerHandEq(a, b) <=> (partial_cmp(a, b) = Some("Equal"))
           /\ \A c \in Held : (Le(a, b) /\ Le(b, c)) => Le(a, c)
    /\ pc = "reverse" => SortHands(hand_handles) = hand_handles

\* Three hands sorted out of their input order, two of them of equal value
\* in different suits.
C5_Witness ==
    /\ pc = "reverse"
    /\ Len(hand_handles) = 3
    /\ hand_handles[1].hand_handle.addr > hand_handles[2].hand_handle.addr
    /\ PokerHandEq(hand_handles[2], hand_handles[3])
    /\ hand_handles[2].cards # hand_handles[3].cards

----------------------------------------------------------------------------
\* The hand built from the string at position i of the input.
Value(i) == PokerHandNew(hands[i]).val

\* The valid positions whose hand no valid hand is greater than.
Winners ==
    LET valid == ValidPositions
        v == [i \in valid |-> Value(i)]
    IN  {i \in valid : \A j \in valid : partial_cmp(v[j], v[i]) # Some("Greater")}

ResultAddrs == {result.val[k].addr : k \in 1..Len(result.val)}

\* C6: for an input with at least one valid hand, winning_hands returns
\* exactly the input strings (the same references, one entry per input
\* position) of the valid hands whose value is the maximum among the valid
\* hands, and no other string.
C6_Winners ==
    (pc = "done" /\ ValidPositions # {}) =>
        /\ result.tag = "Some"
        /\ LET w == Winners
           IN  Len(result.val) = Cardinality(w) /\ ResultAddrs = w
        /\ \A k \in 1..Len(result.val) : result.val[k] = hands[result.val[k].addr]

\* Two tied pairs and a high card: the two pair strings are returned.
C6_Witness ==
    /\ pc = "done"
    /\ Len(hands) = 3
    /\ hands[1].text = <<"4", "D", " ", "4", "H", " ", "J", "D", " ", "6", "C", " ", "2", "S">>
    /\ hands[2].text = <<"4", "C", " ", "4", "S", " ", "J", "H", " ", "6", "S", " ", "2", "S">>
    /\ hands[3].text = <<"2", "H", " ", "3", "D", " ", "5", "S", " ", "9", "C", " ", "K", "D">>
    /\ result.tag = "Some"
    /\ ResultAddrs = {1, 2}

----------------------------------------------------------------------------
\* C7: winning_hands never fails because of an invalid hand: a string that
\* does not parse or holds duplicate cards is skipped and is never in the
\* result, the valid hands are still evaluated, and the result is None
\* exactly when the input holds no valid hand.
C7_InvalidSkipped ==
    /\ pc # "panic"
    /\ pc = "sort" => {h.hand_handle.addr : h \in Held} = ValidPositions
    /\ pc = "done" =>
           LET valid == ValidPositions
           IN  /\ result.tag \in {"None", "Some"}
               /\ (result.tag = "None") <=> (valid = {})
               /\ result.tag = "Some" => ResultAddrs \subseteq valid

\* A string that does not parse and one with a duplicate card before the
\* valid hand that wins.
C7_Witness ==
    /\ pc = "done"
    /\ Len(hands) = 3
    /\ ~WellFormed(hands[1].text)
    /\ WellFormed(hands[2].text) /\ ~ValidHand(hands[2].text)
    /\ result.tag = "Some"
    /\ ResultAddrs = {3}

----------------------------------------------------------------------------
\* C8 as claimed: tied winners are returned in the relative order in which
\* they were passed in.
C8_InputOrder ==
    (pc = "done" /\ result.tag = "Some") =>
        \A k, m \in 1..Len(result.val) :
            k < m => result.val[k].addr < result.val[m].addr

\* C8 amended: tied winners are returned in the reverse of the relative
\* order in which they were passed in (the stable ascending sort keeps the
\* input order of equal hands and the reversal that follows inverts it).
C8_ReverseInputOrder ==
    (pc = "done" /\ result.tag = "Some") =>
        \A k, m \in 1..Len(result.val) :
            k < m => result.val[k].addr > result.val[m].addr

\* Three tied winners.
C8_Witness ==
    /\ pc = "done"
    /\ result.tag = "Some"
    /\ Len(result.val) = 3

----------------------------------------------------------------------------
\* C9: for every string of exactly five tokens separated by single spaces,
\* each a rank code (2-9, 10, J, Q, K, A) followed by a suit code (H, S, C,
\* D), parse_hand_str returns five cards in input order, the i-th with the
\* rank and the suit the i-th token names.
C9_ParseWellFormed ==
    (pc = "parsed" /\ WellFormed(hand.text)) =>
        /\ ret.tag = "Some"
        /\ Len(ret.val) = 5
        /\ LET ps == Split(hand.text)
           IN  \A k \in 1..5 :
                   /\ ret.val[k] \in AllCards
                   /\ RankCode(ret.val[k].rank) \o SuitCode(ret.val[k].suit) = ps[k]

\* A hand string with another card written in the place of one token: the
\* King of Spades, last.
C9_Witness ==
    /\ pc = "parsed"
    /\ edits = 1
    /\ WellFormed(hand.text)
    /\ ret.tag = "Some"
    /\ ret.val[5] = Card(King, Spades)
    /\ ret.val[4].rank = Ten

----------------------------------------------------------------------------
\* C10: parse_hand_str returns a parse failure for every string that is not
\* a whole-string match of the hand format: fewer or more than five tokens,
\* an invalid rank or suit code, separators other than one single space,
\* leading or trailing extra characters.
C10_ParseRejects ==
    (pc = "parsed" /\ ~WellFormed(hand.text)) => ret.tag = "None"

\* A hand string followed by one more character.
C10_Witness ==
    /\ pc = "parsed"
    /\ edits = 1
    /\ Len(hand.text) > 1
    /\ WellFormed(SubSeq(hand.text, 1, Len(hand.text) - 1))
    /\ ~WellFormed(hand.text)
    /\ ret.tag = "None"

----------------------------------------------------------------------------
\* The outcome of PokerHand::new for the hand "4C 4S 4C 3S 2H".
ExampleDuplicate ==
    PokerHandNew(StrRef(0, <<"4", "C", " ", "4", "S", " ", "4", "C", " ", "3", "S", " ", "2", "H">>))

\* C11: for every syntactically valid hand string, PokerHand::new fails with
\* the duplicate-cards error if and only if two of the five cards have the
\* same rank and the same suit, wherever they stand in the string (also when
\* a card of the same rank stands between them, as in "4C 4S 4C 3S 2H");
\* cards of equal rank and different suit are not duplicates.
C11_DuplicateError ==
    /\ pc = "returned" =>
           /\ (ret = PokerHandError("Duplicate cards in hand")) <=> HasDuplicate(dealt)
           /\ ret.tag = "Err" => ret = PokerHandError("Duplicate cards in hand")
    /\ ExampleDuplicate = PokerHandError("Duplicate cards in hand")

\* The same card twice among cards of one rank: after the sort the two
\* copies are not neighbours.
C11_Witness ==
    /\ pc = "returned"
    /\ ret = PokerHandError("Duplicate cards in hand")
    /\ LET sorted == Reverse(SortCards(dealt))
       IN  \E i \in 1..3 :
               /\ sorted[i] = sorted[i + 2]
               /\ sorted[i + 1] # sorted[i]
               /\ sorted[i + 1].rank = sorted[i].rank

----------------------------------------------------------------------------
\* C12: PokerHand::new is total: for every input string it returns a
\* classified hand or an error and never panics (the "Invalid card rank" and
\* "Invalid card suit" arms are not reached, every index cards[0..4] is in
\* bounds); it returns an error only when the string fails to parse or
\* holds a card twice, and every well-formed string of five different cards
\* is classified.
C12_Total ==
    pc = "returned" =>
        /\ ret.tag \in {"Ok", "Err"}
        /\ (ret = PokerHandError("Invalid poker hand")) <=> ~WellFormed(hand.text)
        /\ (ret = PokerHandError("Duplicate cards in hand")) <=>
               (WellFormed(hand.text) /\ ~ValidHand(hand.text))
        /\ ValidHand(hand.text) <=> ret.tag = "Ok"
        /\ ret.tag = "Ok" =>
               /\ ret.val.hand_rank \in PokerHandRanks
               /\ Len(ret.val.cards) = 5
               /\ \A k \in 1..5 : ret.val.cards[k] \in AllCards

\* A string with the digit 1 followed by a suit code where a card should be.
C12_Witness ==
    /\ pc = "returned"
    /\ edits = 1
    /\ ret = PokerHandError("Invalid poker hand")
    /\ Len(Split(hand.text)) = 5
    /\ \E k \in 1..(Len(hand.text) - 1) :
           hand.text[k] = "1" /\ hand.text[k + 1] \in SuitChars

----------------------------------------------------------------------------
\* The outcome chk of a helper called with cards and hand_rank: true, or
\* both as they were.
FalseKeeps(chk, cards, hand_rank) ==
    chk.ret \/ (chk.cards = cards /\ chk.hand_rank = hand_rank)

\* C13: whenever check_flush, check_straight, check_four_of_a_kind,
\* check_three_and_full_house or check_one_and_two_pairs returns false on a
\* five-card sequence, the card sequence and the hand rank are exactly as
\* they were before the call; so a hand on which every check after
\* check_flush fails is returned in rank-descending order with the rank
\* check_flush left.
C13_FalseLeavesUnchanged ==
    pc = "returned" =>
        /\ \A cards \in {dealt, Reverse(SortCards(dealt))} :
               \A r \in PokerHandRanks :
                   /\ FalseKeeps(check_flush(cards, r), cards, r)
                   /\ FalseKeeps(check_straight(cards, r), cards, r)
                   /\ FalseKeeps(check_four_of_a_kind(cards, r), cards, r)
                   /\ FalseKeeps(check_three_and_full_house(cards, r), cards, r)
                   /\ FalseKeeps(check_one_and_two_pairs(cards, r), cards, r)
        /\ (ret.tag = "Ok" /\ RanksOccurring(dealt, 1) = 5 /\ ~IsStraight(dealt)) =>
               /\ ret.val.cards = Reverse(SortCards(dealt))
               /\ ret.val.hand_rank = IF AllSameSuit(dealt) THEN Flush ELSE HighCard

\* A hand written out of rank order on which all five checks return false.
C13_Witness ==
    /\ Returned
    /\ ret.val.hand_rank = HighCard
    /\ dealt # Reverse(SortCards(dealt))
    /\ ~check_flush(dealt, HighCard).ret
    /\ ~check_straight(dealt, HighCard).ret
    /\ ~check_four_of_a_kind(dealt, HighCard).ret
    /\ ~check_three_and_full_house(dealt, HighCard).ret
    /\ ~check_one_and_two_pairs(dealt, HighCard).ret

----------------------------------------------------------------------------
\* The number of places of cards that hold the card c.
CardCount(cards, c) == Cardinality({k \in 1..Len(cards) : cards[k] = c})

\* C14: every hand returned by PokerHand::new holds exactly five cards that
\* are a permutation of the five cards parsed from the input string (the
\* sort, the Ace move of A-5-4-3-2 and the swaps of the helpers drop,
\* duplicate and alter no card), and its hand_handle is the input string
\* itself.
C14_Permutation ==
    Returned =>
        LET parsed == parse_hand_str(hand.text)
            cards == ret.val.cards
        IN  /\ parsed.tag = "Some"
            /\ Len(parsed.val) = 5
            /\ parsed.val = dealt
            /\ Len(cards) = 5
            /\ \A k \in 1..5 :
                   /\ CardCount(cards, cards[k]) = CardCount(parsed.val, cards[k])
                   /\ CardCount(cards, parsed.val[k]) = CardCount(parsed.val, parsed.val[k])
            /\ ret.val.hand_handle = hand

\* A pair below three kickers, moved to the front by three swaps, in a hand
\* written out of rank order.
C14_Witness ==
    /\ Returned
    /\ ret.val.hand_rank = Pair
    /\ ret.val.cards[1].rank < ret.val.cards[5].rank
    /\ ret.val.cards[1].rank < ret.val.cards[3].rank
    /\ ret.val.cards # Reverse(SortCards(dealt))
    /\ dealt # Reverse(SortCards(dealt))
    /\ dealt # SortCards(dealt)

====
